---- MODULE Spec2Model ----
(***************************************************************************)
(* Model of src/app.py: a Streamlit script that runs a five-task CrewAI    *)
(* crew (Process.sequential) over one code artifact and keeps the finished *)
(* reviews in st.session_state.                                            *)
(*                                                                         *)
(* One behaviour is one browser session: a sequence of script executions   *)
(* (Streamlit re-runs the whole script on every interaction).  Each        *)
(* execution walks the script top to bottom; pc is its position.           *)
(***************************************************************************)
EXTENDS Integers, Sequences, FiniteSets, TLC

\* ---------------------------------------------------------------- bounds

\* review runs started in one session
MaxRuns == 2

\* ------------------------------------------------------------- constants

\* the texts the external generator may return for a task
Outputs == {"o1", "o2"}

\* values of the API key text input ("" is the empty input)
Keys == {"", "k"}

\* values of code_content ("" stands for None / empty text)
Codes == {"", "c"}

\* the selectbox options of model_option
Models == {"gemini-2.5-flash-lite", "gemini-2.5-pro"}

Tasks == {"analyze_task", "security_task", "performance_task",
          "documentation_task", "synthesis_task"}

\* Task(..., context=[...]) of each task definition
Context == [t \in Tasks |->
    CASE t = "analyze_task"       -> << >>
      [] t = "security_task"      -> <<"analyze_task">>
      [] t = "performance_task"   -> <<"analyze_task">>
      [] t = "documentation_task" -> <<"analyze_task">>
      [] t = "synthesis_task"     -> <<"analyze_task", "security_task",
                                       "performance_task", "documentation_task">>]

\* Crew(tasks=[...]) as written in the script
CodeTasks == <<"analyze_task", "security_task", "performance_task",
               "documentation_task", "synthesis_task">>

Range(s) == {s[i] : i \in DOMAIN s}

\* the task lists that are a permutation of the five tasks and put every
\* task after the tasks of its context (a Task's context can only name Task
\* objects that already exist)
Declarations ==
    {<<"analyze_task", a, b, c, "synthesis_task">> :
        a \in Tasks, b \in Tasks, c \in Tasks} \cap
    {d \in [1..5 -> Tasks] :
        Range(d) = Tasks}

\* mutant: the crew runs its task list back to front
order_reversed(d) == [i \in 1..Len(d) |-> d[Len(d) + 1 - i]]

\* mutant: the crew ignores the listing and always runs the written order
order_canonical(d) == CodeTasks

\* process=Process.sequential: the crew runs its tasks in list order
order(d) == d

VARIABLES
    session_keys,    \* keys present in st.session_state
    api_key,         \* st.session_state.api_key
    review_result,   \* st.session_state.review_result: << >> is None, else <<record>>
    review_history,  \* st.session_state.review_history
    env_key,         \* os.environ["GOOGLE_API_KEY"]
    pc,              \* position of the current script execution
    script_error,    \* uncaught exception that ended the last execution
    code_content,    \* artifact text of this execution
    model_option,    \* selected model of this execution
    review_button,   \* return value of st.button
    decl,            \* the task list the crew is declared with
    tasks,           \* code_review_crew.tasks (<< >> before the Crew exists)
    tmp_file_path,   \* id of this run's temporary file (0: none)
    tmp_files,       \* temporary files that exist on disk
    progress,        \* values passed to progress_bar.progress in this run
    status,          \* texts passed to status_text.text in this run
    stage_status,    \* per task: Pending, Running, Succeeded, Failed
    output,          \* per task: the recorded output text
    ctx,             \* per task: the context its prompt was built from
    exec_order,      \* tasks in the order they started
    run_status,      \* NotStarted, Running, Completed, Failed
    runs,            \* review runs started in this session
    completed,       \* review runs that reached Completed
    hist_before,     \* review_history when the current run started
    result_before    \* review_result when the current run started

vars == <<session_keys, api_key, review_result, review_history, env_key, pc,
          script_error, code_content, model_option, review_button, decl,
          tasks, tmp_file_path, tmp_files, progress, status, stage_status,
          output, ctx, exec_order, run_status, runs, completed, hist_before,
          result_before>>

sessionVars == <<session_keys, api_key, review_result, review_history>>
inputVars   == <<code_content, model_option, review_button>>
crewVars    == <<stage_status, output, ctx, exec_order>>
uiVars      == <<progress, status>>
ghostVars   == <<runs, completed, hist_before, result_before>>

NoOutput == "none"

\* ------------------------------------------------------------------ Init

InitRest ==
    /\ review_result = << >>
    /\ review_history = << >>
    /\ env_key \in Keys
    /\ pc = "idle"
    /\ script_error = "none"
    /\ code_content = ""
    /\ model_option = "gemini-2.5-flash-lite"
    /\ review_button = FALSE
    /\ tasks = << >>
    /\ tmp_file_path = 0
    /\ tmp_files = {}
    /\ progress = << >>
    /\ status = << >>
    /\ stage_status = [t \in Tasks |-> "Pending"]
    /\ output = [t \in Tasks |-> NoOutput]
    /\ ctx = [t \in Tasks |-> << >>]
    /\ exec_order = << >>
    /\ run_status = "NotStarted"
    /\ runs = 0
    /\ completed = 0
    /\ hist_before = << >>
    /\ result_before = << >>

\* A session starts with an empty session state, or with api_key already
\* stored in it.  The script reads st.session_state.api_key at line 16,
\* before the initialisation at lines 69-72: an execution on an empty session
\* state ends there with AttributeError, so every review run belongs to a
\* session of the second kind.  review_result and review_history are only
\* ever set by this script.
InitSession ==
    \/ /\ session_keys = {}
       /\ api_key = ""
    \/ /\ session_keys = {"api_key"}
       /\ api_key \in Keys

Init ==
    /\ InitSession
    /\ InitRest
    /\ decl = CodeTasks

\* the same program with its task list declared in any admissible order
InitDecl ==
    /\ InitSession
    /\ InitRest
    /\ decl \in Declarations

\* ------------------------------------------------------- script execution

\* a widget interaction or page load re-runs the script from the top
ScriptStart ==
    /\ pc = "idle"
    /\ pc' = "line16"
    /\ script_error' = "none"
    /\ UNCHANGED <<sessionVars, env_key, inputVars, decl, tasks, tmp_file_path,
                   tmp_files, uiVars, crewVars, run_status, ghostVars>>

\* os.environ["GOOGLE_API_KEY"] = st.session_state.api_key
\* (reading a key that is not in the session state raises AttributeError,
\* which ends the script execution)
SetEnvApiKey ==
    /\ pc = "line16"
    /\ IF "api_key" \in session_keys
         THEN /\ env_key' = api_key
              /\ pc' = "init"
              /\ UNCHANGED script_error
         ELSE /\ script_error' = "AttributeError"
              /\ pc' = "idle"
              /\ UNCHANGED env_key
    /\ UNCHANGED <<sessionVars, inputVars, decl, tasks, tmp_file_path,
                   tmp_files, uiVars, crewVars, run_status, ghostVars>>

\* mutant: the history is reset on every script execution
InitHistory_unguarded == << >>

\* if "review_history" not in st.session_state: ... = []
InitHistory ==
    IF "review_history" \in session_keys THEN review_history ELSE << >>

\* mutant: the stored result is reset on every script execution
InitResult_unguarded == << >>

\* if "review_result" not in st.session_state: ... = None
InitResult ==
    IF "review_result" \in session_keys THEN review_result ELSE << >>

\* "Initialize session state"
InitSessionState ==
    /\ pc = "init"
    /\ api_key' = IF "api_key" \in session_keys THEN api_key ELSE env_key
    /\ review_result' = InitResult
    /\ review_history' = InitHistory
    /\ session_keys' = session_keys \cup
                       {"api_key", "review_result", "review_history"}
    /\ pc' = "sidebar"
    /\ UNCHANGED <<env_key, script_error, inputVars, decl, tasks,
                   tmp_file_path, tmp_files, uiVars, crewVars, run_status,
                   ghostVars>>

\* sidebar: the API key text input and the model selectbox
Sidebar ==
    /\ pc = "sidebar"
    /\ \E api_key_input \in Keys :
          api_key' = IF api_key_input # "" THEN api_key_input ELSE api_key
    /\ \E m \in Models : model_option' = m
    /\ pc' = "input"
    /\ UNCHANGED <<session_keys, review_result, review_history, env_key,
                   script_error, code_content, review_button, decl, tasks,
                   tmp_file_path, tmp_files, uiVars, crewVars, run_status,
                   ghostVars>>

\* mutant: the button is enabled by the artifact alone
ButtonEnabled_codeOnly(code) == code # ""

\* st.button(..., disabled=not (code_content and st.session_state.api_key))
ButtonEnabled(code) == code # "" /\ api_key # ""

\* if review_button and code_content:
StartsReview(button, code) == button /\ code # ""

\* tab 1: the artifact input, the review button and the run's guard
CodeInput ==
    /\ pc = "input"
    /\ \E code \in Codes, click \in BOOLEAN :
          LET button == click /\ ButtonEnabled(code) /\ runs < MaxRuns IN
          /\ code_content' = code
          /\ review_button' = button
          /\ IF StartsReview(button, code)
               THEN /\ pc' = "llm"
                    /\ run_status' = "Running"
                    /\ runs' = runs + 1
                    /\ hist_before' = review_history
                    /\ result_before' = review_result
               ELSE /\ pc' = "tab2"
                    /\ UNCHANGED <<run_status, runs, hist_before,
                                   result_before>>
    /\ UNCHANGED <<sessionVars, env_key, script_error, model_option, decl,
                   tasks, tmp_file_path, tmp_files, uiVars, crewVars,
                   completed>>

\* llm = LLM(...): returns, or raises into the except clause
LLMInit ==
    /\ pc = "llm"
    /\ \E ok \in BOOLEAN : pc' = IF ok THEN "tmpfile" ELSE "except"
    /\ UNCHANGED <<sessionVars, env_key, script_error, inputVars, decl, tasks,
                   tmp_file_path, tmp_files, uiVars, crewVars, run_status,
                   ghostVars>>

\* tempfile.NamedTemporaryFile(..., delete=False): the file outlives the with
CreateTempFile ==
    /\ pc = "tmpfile"
    /\ tmp_file_path' = runs
    /\ tmp_files' = tmp_files \cup {runs}
    /\ pc' = "agents"
    /\ UNCHANGED <<sessionVars, env_key, script_error, inputVars, decl, tasks,
                   uiVars, crewVars, run_status, ghostVars>>

\* progress 0, "Initializing AI agents...", progress 10, the five Agent(...)
\* constructors (any may raise), progress 20
CreateAgents ==
    /\ pc = "agents"
    /\ status' = Append(status, "Initializing AI agents...")
    /\ \E ok \in BOOLEAN :
          IF ok THEN /\ progress' = progress \o <<0, 10, 20>>
                     /\ pc' = "tasks"
                ELSE /\ progress' = progress \o <<0, 10>>
                     /\ pc' = "except"
    /\ UNCHANGED <<sessionVars, env_key, script_error, inputVars, decl, tasks,
                   tmp_file_path, tmp_files, crewVars, run_status, ghostVars>>

AgentMsg(i) ==
    CASE i = 1 -> "Agent 1/5: Analyzing code quality..."
      [] i = 2 -> "Agent 2/5: Auditing security..."
      [] i = 3 -> "Agent 3/5: Analyzing performance..."
      [] i = 4 -> "Agent 4/5: Reviewing documentation..."
      [] i = 5 -> "Agent 5/5: Synthesizing results..."

\* mutant: the last announcement already reports 100
AgentPct_full(i) ==
    CASE i = 1 -> 40
      [] i = 2 -> 55
      [] i = 3 -> 70
      [] i = 4 -> 85
      [] i = 5 -> 100

AgentPct(i) ==
    CASE i = 1 -> 40
      [] i = 2 -> 55
      [] i = 3 -> 70
      [] i = 4 -> 85
      [] i = 5 -> 95

\* "Creating analysis tasks...", the five Task(...) definitions, progress 30,
\* then the announcement of agent 1
CreateTasks ==
    /\ pc = "tasks"
    /\ status' = status \o <<"Creating analysis tasks...", AgentMsg(1)>>
    /\ progress' = progress \o <<30, AgentPct(1)>>
    /\ pc' = "crew"
    /\ UNCHANGED <<sessionVars, env_key, script_error, inputVars, decl, tasks,
                   tmp_file_path, tmp_files, crewVars, run_status, ghostVars>>

\* code_review_crew = Crew(agents=[...], tasks=[...], process=Process.sequential)
AssembleCrew ==
    /\ pc = "crew"
    /\ tasks' = order(decl)
    /\ pc' = "announce"
    /\ UNCHANGED <<sessionVars, env_key, script_error, inputVars, decl,
                   tmp_file_path, tmp_files, uiVars, crewVars, run_status,
                   ghostVars>>

\* number of "Agent i/5" announcements made so far in this run
Announced == Len(status) - 2

\* "Progress updates (UI only)": agents 2..5 are announced, one after the
\* other, before kickoff is called
AnnounceAgent ==
    /\ pc = "announce"
    /\ Announced < 5
    /\ status' = Append(status, AgentMsg(Announced + 1))
    /\ progress' = Append(progress, AgentPct(Announced + 1))
    /\ pc' = IF Announced + 1 = 5 THEN "kickoff" ELSE "announce"
    /\ UNCHANGED <<sessionVars, env_key, script_error, inputVars, decl, tasks,
                   tmp_file_path, tmp_files, crewVars, run_status, ghostVars>>

\* -------------------------------------------------- code_review_crew.kickoff

Running == {t \in Tasks : stage_status[t] = "Running"}

\* mutant: the next task starts while the previous one is still running
CanStart_overlapping ==
    Len(exec_order) < Len(tasks)

\* sequential process: the next task starts when no task is running and the
\* tasks before it in the list have run
CanStart ==
    /\ Running = {}
    /\ Len(exec_order) < Len(tasks)
    /\ \A i \in 1..Len(exec_order) : stage_status[tasks[i]] = "Succeeded"

SucceededIn(d) == stage_status[d] = "Succeeded"

\* mutant: every task receives the outputs of all tasks run before it
ContextOutputs_all(t) ==
    [i \in 1..Len(exec_order) |-> <<exec_order[i], output[exec_order[i]]>>]

\* the context a task's prompt is built from: the recorded outputs of the
\* tasks of its context list, in list order, each labelled with its task
ContextOutputs(t) ==
    LET deps == SelectSeq(Context[t], SucceededIn)
    IN  [i \in 1..Len(deps) |-> <<deps[i], output[deps[i]]>>]

StageStart ==
    /\ pc = "kickoff"
    /\ CanStart
    /\ LET t == tasks[Len(exec_order) + 1] IN
          /\ stage_status' = [stage_status EXCEPT ![t] = "Running"]
          /\ ctx' = [ctx EXCEPT ![t] = ContextOutputs(t)]
          /\ exec_order' = Append(exec_order, t)
    /\ UNCHANGED <<sessionVars, env_key, pc, script_error, inputVars, decl,
                   tasks, tmp_file_path, tmp_files, uiVars, output,
                   run_status, ghostVars>>

\* the generator returns a text for the running task
StageSucceed ==
    /\ pc = "kickoff"
    /\ \E t \in Running, o \in Outputs :
          /\ stage_status' = [stage_status EXCEPT ![t] = "Succeeded"]
          /\ output' = [output EXCEPT ![t] = o]
    /\ UNCHANGED <<sessionVars, env_key, pc, script_error, inputVars, decl,
                   tasks, tmp_file_path, tmp_files, uiVars, ctx, exec_order,
                   run_status, ghostVars>>

\* the generator fails for the running task: kickoff raises
StageFail ==
    /\ pc = "kickoff"
    /\ \E t \in Running :
          stage_status' = [stage_status EXCEPT ![t] = "Failed"]
    /\ pc' = "except"
    /\ UNCHANGED <<sessionVars, env_key, script_error, inputVars, decl, tasks,
                   tmp_file_path, tmp_files, uiVars, output, ctx, exec_order,
                   run_status, ghostVars>>

AllSucceeded == \A t \in Tasks : stage_status[t] = "Succeeded"

\* mutant: the result is the first task's output
KickoffResult_first == output[tasks[1]]

\* result = code_review_crew.kickoff(...): the output of the last task
KickoffResult == output[tasks[Len(tasks)]]

\* the record stored in review_result
ReviewRecord ==
    [content |-> KickoffResult, code |-> code_content, model |-> model_option]

\* st.session_state.review_history.append(st.session_state.review_result)
AppendHistory(h, r) == Append(h, r)

\* os.unlink(tmp_file_path)
Unlink(files, f) == files \ {f}

\* kickoff returned: progress 100, "Review complete!", store the result,
\* add it to the history, delete the temporary file
StoreResult ==
    /\ pc = "kickoff"
    /\ AllSucceeded
    /\ progress' = Append(progress, 100)
    /\ status' = Append(status, "Review complete!")
    /\ review_result' = <<ReviewRecord>>
    /\ review_history' = AppendHistory(review_history, ReviewRecord)
    /\ tmp_files' = Unlink(tmp_files, tmp_file_path)
    /\ run_status' = "Completed"
    /\ completed' = completed + 1
    /\ pc' = "tab2"
    /\ UNCHANGED <<session_keys, api_key, env_key, script_error, inputVars,
                   decl, tasks, tmp_file_path, crewVars, runs, hist_before,
                   result_before>>

\* mutant: the handler records the failed run in the history
ExceptHistory_appends(h) ==
    Append(h, [content |-> "error", code |-> code_content,
               model |-> model_option])

\* the history an exception leaves behind
ExceptHistory(h) == h

\* the temporary files an exception leaves behind
ExceptFiles(files, f) == files

\* except Exception as e: st.error(...), st.info(...)
ExceptHandler ==
    /\ pc = "except"
    /\ run_status' = "Failed"
    /\ review_history' = ExceptHistory(review_history)
    /\ tmp_files' = ExceptFiles(tmp_files, tmp_file_path)
    /\ pc' = "tab2"
    /\ UNCHANGED <<session_keys, api_key, review_result, env_key, script_error,
                   inputVars, decl, tasks, tmp_file_path, uiVars, crewVars,
                   ghostVars>>

\* tabs 2..4 and the footer are rendered and the script execution ends; the
\* run's local objects are gone with it
RenderResults ==
    /\ pc = "tab2"
    /\ pc' = "idle"
    /\ tasks' = << >>
    /\ tmp_file_path' = 0
    /\ progress' = << >>
    /\ status' = << >>
    /\ stage_status' = [t \in Tasks |-> "Pending"]
    /\ output' = [t \in Tasks |-> NoOutput]
    /\ ctx' = [t \in Tasks |-> << >>]
    /\ exec_order' = << >>
    /\ run_status' = "NotStarted"
    /\ review_button' = FALSE
    /\ UNCHANGED <<sessionVars, env_key, script_error, code_content,
                   model_option, decl, tmp_files, ghostVars>>

Next ==
    \/ ScriptStart
    \/ SetEnvApiKey
    \/ InitSessionState
    \/ Sidebar
    \/ CodeInput
    \/ LLMInit
    \/ CreateTempFile
    \/ CreateAgents
    \/ CreateTasks
    \/ AssembleCrew
    \/ AnnounceAgent
    \/ StageStart
    \/ StageSucceed
    \/ StageFail
    \/ StoreResult
    \/ ExceptHandler
    \/ RenderResults

Spec == Init /\ [][Next]_vars

SpecDecl == InitDecl /\ [][Next]_vars

\* ---------------------------------------------------------------- claims

IsPrefix(a, b) == Len(a) <= Len(b) /\ SubSeq(b, 1, Len(a)) = a

RunEnded == pc = "tab2" /\ run_status \in {"Completed", "Failed"}

\* C1: when the generator fails at the k-th task of the run, no task after
\* it has started or produced output, the failure leaves kickoff for the
\* except clause, the run ends Failed, and review_history and review_result
\* are those from before the run.
C1_FailureAborts ==
    \A k \in 1..Len(tasks) :
        stage_status[tasks[k]] = "Failed" =>
            /\ \A j \in (k + 1)..Len(tasks) :
                  /\ stage_status[tasks[j]] = "Pending"
                  /\ output[tasks[j]] = NoOutput
            /\ exec_order = SubSeq(tasks, 1, k)
            /\ pc \in {"except", "tab2"}
            /\ pc = "tab2" => run_status = "Failed"
            /\ review_history = hist_before
            /\ review_result = result_before

\* C1 witness: a run after a completed one has ended with its third task
\* failed
C1_Witness ==
    /\ RunEnded
    /\ stage_status["performance_task"] = "Failed"
    /\ Len(hist_before) = 1

\* C2: a run in which every task succeeded ends with review_history one
\* longer than before, the old records kept, and the last record's content
\* equal to the synthesis task's output; the history's size is always the
\* number of Completed runs.
C2_SuccessAppends ==
    /\ Len(review_history) = completed
    /\ (pc = "tab2" /\ run_status = "Completed") =>
          /\ Len(review_history) = Len(hist_before) + 1
          /\ SubSeq(review_history, 1, Len(hist_before)) = hist_before
          /\ review_history[Len(review_history)].content
                = output["synthesis_task"]

\* C2 witness: the second completed run, whose synthesis output differs from
\* the quality task's
C2_Witness ==
    /\ pc = "tab2"
    /\ run_status = "Completed"
    /\ completed = 2
    /\ output["synthesis_task"] # output["analyze_task"]

\* C3: a task has started only if every task of its context has Succeeded,
\* and the crew's task list places every task of a context before the task
\* that names it.
C3_DependenciesFirst ==
    /\ \A t \in Tasks :
          stage_status[t] # "Pending" =>
              \A d \in Range(Context[t]) : stage_status[d] = "Succeeded"
    /\ \A i \in 1..Len(tasks) :
          \A d \in Range(Context[tasks[i]]) :
              \E j \in 1..(i - 1) : tasks[j] = d

\* C3 witness: the synthesis task is running
C3_Witness ==
    /\ pc = "kickoff"
    /\ stage_status["synthesis_task"] = "Running"

NonDecreasing(s) == \A i, j \in 1..Len(s) : i <= j => s[i] <= s[j]

Last(s) == s[Len(s)]

\* C5: the progress values of a run are non-decreasing, and at the end of a
\* run the last value emitted is 100 exactly when the run is Completed; a
\* Failed run has emitted no value as high as 100.
C5_ProgressMonotone ==
    /\ NonDecreasing(progress)
    /\ \A i \in 1..Len(progress) : progress[i] \in 0..100
    /\ RunEnded =>
          /\ (progress # << >> /\ Last(progress) = 100)
                <=> run_status = "Completed"
          /\ run_status = "Failed" =>
                \A i \in 1..Len(progress) : progress[i] < 100

\* C5 witness: a run that failed in its last task, after every progress
\* value below 100 was emitted
C5_Witness ==
    /\ RunEnded
    /\ stage_status["synthesis_task"] = "Failed"
    /\ progress = <<0, 10, 20, 30, 40, 55, 70, 85, 95>>

\* C6 (as stated): at the end of a run that created a temporary file, that
\* file no longer exists.
C6_TempFileReleased ==
    (RunEnded /\ tmp_file_path # 0) => tmp_file_path \notin tmp_files

\* C6 witness: a run ended Failed with its temporary file still on disk
C6_Witness ==
    /\ RunEnded
    /\ run_status = "Failed"
    /\ tmp_file_path \in tmp_files

\* C7: review_history only grows at its end: every step keeps the records
\* it held, at their indices and unchanged.
C7_HistoryAppendOnly ==
    [][IsPrefix(review_history, review_history')]_vars

\* C7 witness: a script re-execution has passed the session-state
\* initialisation with two records, equal to each other, in the history
C7_Witness ==
    /\ pc = "sidebar"
    /\ Len(review_history) = 2
    /\ review_history[1] = review_history[2]

\* the tasks listed before t in the crew's task list
Before(t) == {tasks[j] : j \in {i \in 1..Len(tasks) :
                                  \E k \in (i + 1)..Len(tasks) : tasks[k] = t}}

\* one step of one task's status within a run; the script execution's end
\* discards the run's state
StageStep(t) ==
    \/ stage_status'[t] = stage_status[t]
    \/ /\ stage_status[t] = "Pending"
       /\ stage_status'[t] = "Running"
       /\ Running = {}
       /\ \A b \in Before(t) : stage_status[b] = "Succeeded"
    \/ /\ stage_status[t] = "Running"
       /\ stage_status'[t] \in {"Succeeded", "Failed"}
    \/ /\ pc = "tab2"
       /\ pc' = "idle"
       /\ stage_status'[t] = "Pending"

\* C9: within a run a task's status only moves Pending -> Running ->
\* Succeeded or Failed; a task enters Running only when no task is running
\* and every task listed before it has Succeeded; at most one task is
\* Running in any state.
C9_StageLifecycle ==
    /\ [](Cardinality(Running) <= 1)
    /\ [][\A t \in Tasks : StageStep(t)]_vars

\* C9 witness: the second task is running after the first has succeeded
C9_Witness ==
    /\ stage_status["analyze_task"] = "Succeeded"
    /\ stage_status["security_task"] = "Running"
    /\ stage_status["performance_task"] = "Pending"

\* the dependencies the claim names for each task
ClaimedDeps(t) ==
    CASE t = "analyze_task" -> << >>
      [] t \in {"security_task", "performance_task", "documentation_task"}
            -> <<"analyze_task">>
      [] t = "synthesis_task"
            -> <<"analyze_task", "security_task", "performance_task",
                 "documentation_task">>

\* C10: the context a started task's prompt was built from is exactly the
\* recorded outputs of its declared dependencies, in their declared order,
\* each from the task it is labelled with, and nothing else; a task that has
\* not started has no context.
C10_ContextExact ==
    \A t \in Tasks :
        IF stage_status[t] = "Pending"
          THEN ctx[t] = << >>
          ELSE ctx[t] = [i \in 1..Len(ClaimedDeps(t)) |->
                           <<ClaimedDeps(t)[i], output[ClaimedDeps(t)[i]]>>]

\* C10 witness: the synthesis task is running on four outputs that differ
\* between neighbouring dependencies
C10_Witness ==
    /\ stage_status["synthesis_task"] = "Running"
    /\ ctx["synthesis_task"] =
          << <<"analyze_task", "o1">>, <<"security_task", "o2">>,
             <<"performance_task", "o1">>, <<"documentation_task", "o2">> >>
    /\ ctx["performance_task"] = << <<"analyze_task", "o1">> >>

\* the task the i-th "Agent i/5" announcement is about
AnnouncedTask(i) == CodeTasks[i]

\* C11 (as stated): the announcement of agent i has been emitted only if
\* task i has been set to Running, hence only once task i-1 has Succeeded
\* and never while no task has been executed.
C11_AnnouncedWhenRunning ==
    \A i \in 1..5 :
        (\E n \in 1..Len(status) : status[n] = AgentMsg(i)) =>
            /\ stage_status[AnnouncedTask(i)] # "Pending"
            /\ i > 1 => stage_status[AnnouncedTask(i - 1)] = "Succeeded"

\* C11 witness: kickoff has not started any task and all five agents have
\* been announced, with progress at 95
C11_Witness ==
    /\ pc = "kickoff"
    /\ exec_order = << >>
    /\ \A t \in Tasks : stage_status[t] = "Pending"
    /\ \A i \in 1..5 : \E n \in 1..Len(status) : status[n] = AgentMsg(i)
    /\ Last(progress) = 95

\* C12 (as stated): whenever a script execution is about to read
\* st.session_state.api_key at line 16, the key is in the session state, and
\* no execution has ended on that read.
C12_KeyInitialisedBeforeRead ==
    /\ pc = "line16" => "api_key" \in session_keys
    /\ script_error # "AttributeError"

\* C12 witness: an execution of a fresh session has ended at line 16 with
\* AttributeError, the session state still empty
C12_Witness ==
    /\ pc = "idle"
    /\ script_error = "AttributeError"
    /\ session_keys = {}

\* C13: review_result is None exactly when review_history is empty, and
\* otherwise it is the last record of review_history; a run that ended
\* Failed has left review_result as it was before the run.
C13_ResultIsLastRecord ==
    /\ review_result = << >> <=> review_history = << >>
    /\ review_history # << >> => review_result = <<Last(review_history)>>
    /\ (RunEnded /\ run_status = "Failed") => review_result = result_before

\* C13 witness: a run has ended Failed after an earlier run completed, and
\* the stored result is still the completed run's record
C13_Witness ==
    /\ RunEnded
    /\ run_status = "Failed"
    /\ Len(review_history) = 1
    /\ review_result = <<review_history[1]>>

\* the positions of a script execution inside the review run
RunPcs == {"llm", "tmpfile", "agents", "tasks", "crew", "announce",
           "kickoff", "except"}

\* the start button was pressed on a non-empty artifact with a non-empty
\* stored API key
RunAllowed == review_button /\ code_content # "" /\ api_key # ""

\* C14: a script execution is inside a review run, or has run one, only if
\* the button was pressed with non-empty artifact and non-empty stored key;
\* an execution that got past the button with an empty artifact or an empty
\* stored key has the button unpressed, no run and no temporary file; and
\* every step that changes review_history, the temporary files or the number
\* of runs belongs to an execution in which the button was so pressed.
C14_RunGuard ==
    /\ []((pc \in RunPcs \/ run_status # "NotStarted") => RunAllowed)
    /\ []((pc = "tab2" /\ (code_content = "" \/ api_key = "")) =>
             /\ ~review_button
             /\ run_status = "NotStarted"
             /\ tmp_file_path = 0)
    /\ [][(\/ review_history' # review_history
           \/ tmp_files' # tmp_files
           \/ runs' # runs) =>
             (review_button' /\ code_content' # "" /\ api_key' # "")]_vars

\* C14 witness: an execution with a non-empty artifact and an empty stored
\* key has passed the button and reached the results tab without a run
C14_Witness ==
    /\ pc = "tab2"
    /\ code_content = "c"
    /\ api_key = ""
    /\ "review_history" \in session_keys
    /\ run_status = "NotStarted"
    /\ runs = 0

====
